---- MODULE Spec2Model ----
(***************************************************************************)
(* School data set and search engine (lib/school_data.py,                  *)
(* lib/school_search.py).                                                  *)
(*                                                                         *)
(* A Python str is a sequence of one-character strings, so that len(),     *)
(* lower(), split(" "), " ".join() and the substring test `in` are         *)
(* computed character by character.  An instance of City or Agency is its  *)
(* position in the class's class_obj_list: instances are appended by       *)
(* __init__ and never removed, so the position is the object's identity.   *)
(***************************************************************************)
EXTENDS Integers, Sequences, FiniteSets, TLC

VARIABLES
    City_class_obj_list,    \* City.class_obj_list: sequence of [city, state]
    Agency_class_obj_list,  \* Agency.class_obj_list: sequence of [agency_id, agency_name]
    counts_city,            \* City._counts_city: dict city name -> count
    counts_state,           \* City._counts_state: dict state -> count
    locale_code_count,      \* School._locale_code_count: dict label -> count
    urban_code_count,       \* School._urban_code_count
    status_code_count,      \* School._status_code_count
    schools,                \* SchoolDataSet.schools
    engine,                 \* "none", or "built" once a SchoolSearchEngine exists
    whole_terms,            \* SchoolSearchEngine._whole_terms (the search cache)
    query,                  \* the argument of the last phrase() call, NoQuery before
    result,                 \* the list the last phrase() call returned
    phrase_raised,          \* the last phrase() call raised to its caller
    search_error,           \* the last phrase() call logged "Search error."
    ret,                    \* history: the last operation, its arguments and outcome
    nOps,                   \* history: operations performed so far
    cityInvoked,            \* history: City.get_or_create invocations per city name
    cityReturned,           \* history: ... that returned an instance, per city name
    stateReturned,          \* history: ... that returned an instance, per state
    cityFirst,              \* history: (city, state) -> instance of the first call
    agencyFirst,            \* history: (agency_id, agency_name) -> instance of the first call
    cacheAtBuild            \* history: _whole_terms right after _build_cache

vars == <<City_class_obj_list, Agency_class_obj_list, counts_city, counts_state,
          locale_code_count, urban_code_count, status_code_count, schools,
          engine, whole_terms, query, result, phrase_raised, search_error,
          ret, nOps, cityInvoked, cityReturned, stateReturned, cityFirst,
          agencyFirst, cacheAtBuild>>

dataVars == <<City_class_obj_list, Agency_class_obj_list, counts_city, counts_state,
              locale_code_count, urban_code_count, status_code_count, schools,
              cityInvoked, cityReturned, stateReturned, cityFirst, agencyFirst>>

searchVars == <<engine, whole_terms, query, result, phrase_raised, search_error,
                cacheAtBuild>>

(***************************************************************************)
(* Bounds of the model.                                                    *)
(***************************************************************************)
MaxOps == 3         \* operations of a run of the data model
MaxSchools == 4     \* records loaded before the search engine is built
MaxWords == 2       \* words of a query

(***************************************************************************)
(* Python values.                                                          *)
(***************************************************************************)
None == "None"

EmptyDict == [k \in {} |-> 0]

Range(s) == {s[i] : i \in 1..Len(s)}

RECURSIVE SumDict(_)
SumDict(d) ==
    IF DOMAIN d = {} THEN 0
    ELSE LET k == CHOOSE x \in DOMAIN d : TRUE
         IN d[k] + SumDict([x \in DOMAIN d \ {k} |-> d[x]])

\* d.get(k, 0)
Get0(d, k) == IF k \in DOMAIN d THEN d[k] ELSE 0

\* if k not in d: d[k] = 0
\* d[k] += 1
DictIncrement(d, k) ==
    LET d0 == IF k \in DOMAIN d THEN d ELSE (k :> 0) @@ d
    IN [d0 EXCEPT ![k] = @ + 1]

Digits == <<"0", "1", "2", "3", "4", "5", "6", "7", "8", "9">>

IsDigit(c) == \E i \in 1..10 : Digits[i] = c

DigitVal(c) == (CHOOSE i \in 1..10 : Digits[i] = c) - 1

RECURSIVE IntOf(_)
IntOf(s) ==
    IF Len(s) = 0 THEN 0
    ELSE 10 * IntOf(SubSeq(s, 1, Len(s) - 1)) + DigitVal(s[Len(s)])

\* int(value) / float(value) of a str made of letters and digits: a number when
\* the str is a non-empty run of digits, ValueError otherwise.
Numeric(s) == Len(s) > 0 /\ \A i \in 1..Len(s) : IsDigit(s[i])

\* utils.typing.convert_type(target_type, value), raise_on_error = False: the
\* converted number, or the value as it came.
convert_type(value) ==
    IF Numeric(value) THEN [converted |-> TRUE, num |-> IntOf(value)]
    ELSE [converted |-> FALSE, raw |-> value]

(***************************************************************************)
(* The classification enums: code -> member name.                          *)
(***************************************************************************)
\* The locale table keyed by the urban-centric codes of its first members.
LocaleCodesUrbanKeys ==
    (11 :> "LARGE_CITY") @@ (12 :> "MIDSIZE_CITY") @@ (13 :> "URBAN_FRINGE_LARGE_CITY")
    @@ (4 :> "URBAN_FRINGE_MIDSIZE_CITY") @@ (5 :> "LARGE_TOWN") @@ (6 :> "SMALL_TOWN")
    @@ (7 :> "RURAL_OUTSIDE_CBSA") @@ (8 :> "RURAL_INSIDE_CBSA")

LocaleCodes ==
    (1 :> "LARGE_CITY") @@ (2 :> "MIDSIZE_CITY") @@ (3 :> "URBAN_FRINGE_LARGE_CITY")
    @@ (4 :> "URBAN_FRINGE_MIDSIZE_CITY") @@ (5 :> "LARGE_TOWN") @@ (6 :> "SMALL_TOWN")
    @@ (7 :> "RURAL_OUTSIDE_CBSA") @@ (8 :> "RURAL_INSIDE_CBSA")

UrbanLocaleCodes ==
    (11 :> "CITY_LARGE") @@ (12 :> "CITY_MIDSIZE") @@ (13 :> "CITY_SMALL")
    @@ (21 :> "SUBURB_LARGE") @@ (22 :> "SUBURB_MIDSIZE") @@ (23 :> "SUBURB_SMALL")
    @@ (31 :> "TOWN_FRINGE") @@ (32 :> "TOWN_DISTANT") @@ (33 :> "TIWN_REMOTE")
    @@ (41 :> "RURAL_FRINGE") @@ (42 :> "RURAL_DISTANT") @@ (43 :> "RURAL_REMOTE")

SchoolStatusCodes ==
    (1 :> "OPERATIONAL") @@ (2 :> "CLOSED") @@ (3 :> "OPENED")
    @@ (4 :> "OPERATIONAL_NEWLY_LISTED") @@ (5 :> "NEW_AGENCY") @@ (6 :> "TEMP_CLOSED")
    @@ (7 :> "WILL_BE_OPERATIONAL") @@ (8 :> "REOPENED")

\* SearchableEnum.find_val: cls(val), or None on ValueError.  A str that
\* convert_type handed through unconverted equals no member's value.
find_val(cls, val) ==
    IF val.converted /\ val.num \in DOMAIN cls THEN cls[val.num] ELSE None

\* CountsMetadata.increment_count_metadata; class_code is a member name or None.
increment_count_overwrite(class_code, code_count_dict) ==
    IF class_code = None THEN code_count_dict
    ELSE (class_code :> 1) @@ code_count_dict

increment_count_metadata(class_code, code_count_dict) ==
    IF class_code = None THEN code_count_dict
    ELSE DictIncrement(code_count_dict, class_code)

(***************************************************************************)
(* Search.search and the two registries.                                   *)
(***************************************************************************)
City_search_fields == {"city", "state"}

Agency_search_fields == {"agency_id", "agency_name"}

\* Search.search(**kwargs): the instances (positions in class_obj_list, in
\* list order) that match on every search field present in kwargs.
RECURSIVE SearchFrom(_, _, _, _)
SearchFrom(class_obj_list, search_fields, kwargs, i) ==
    IF i > Len(class_obj_list) THEN <<>>
    ELSE LET obj == class_obj_list[i]
             match == \A field \in search_fields :
                          ~(field \in DOMAIN kwargs /\ obj[field] # kwargs[field])
         IN (IF match THEN <<i>> ELSE <<>>)
            \o SearchFrom(class_obj_list, search_fields, kwargs, i + 1)

SearchAnyField(class_obj_list, search_fields, kwargs) ==
    SelectSeq([i \in 1..Len(class_obj_list) |-> i],
              LAMBDA i : \E field \in search_fields :
                             field \in DOMAIN kwargs
                             /\ class_obj_list[i][field] = kwargs[field])

Search(class_obj_list, search_fields, kwargs) ==
    SearchFrom(class_obj_list, search_fields, kwargs, 1)

\* len(state) != 2
BadStateTooLong(state) == Len(state) > 2

BadState(state) == Len(state) # 2

\* City.get_or_create counting only the calls that create an instance.
City_get_or_create_count_on_miss(objs, ccity, cstate, city, state) ==
    IF Len(state) # 2
    THEN [raised |-> "ValueError", inst |-> 0,
          objs |-> objs, counts_city |-> ccity, counts_state |-> cstate]
    ELSE LET match == SearchFrom(objs, {"city", "state"},
                                 [city |-> city, state |-> state], 1)
         IN IF Len(match) = 0
            THEN [raised |-> None, inst |-> Len(objs) + 1,
                  objs |-> Append(objs, [city |-> city, state |-> state]),
                  counts_city |-> DictIncrement(ccity, city),
                  counts_state |-> DictIncrement(cstate, state)]
            ELSE [raised |-> None, inst |-> match[1],
                  objs |-> objs, counts_city |-> ccity, counts_state |-> cstate]

\* City.get_or_create(city, state) on the registry and the two count dicts:
\* what it raised, the instance it returned, and the registry and dicts after.
City_get_or_create(objs, ccity, cstate, city, state) ==
    IF BadState(state)
    THEN [raised |-> "ValueError", inst |-> 0,
          objs |-> objs, counts_city |-> ccity, counts_state |-> cstate]
    ELSE LET match == Search(objs, City_search_fields,
                             [city |-> city, state |-> state])
             ccity1 == DictIncrement(ccity, city)
             cstate1 == DictIncrement(cstate, state)
         IN IF Len(match) = 0
            THEN [raised |-> None, inst |-> Len(objs) + 1,
                  objs |-> Append(objs, [city |-> city, state |-> state]),
                  counts_city |-> ccity1, counts_state |-> cstate1]
            ELSE [raised |-> None, inst |-> match[1],
                  objs |-> objs, counts_city |-> ccity1, counts_state |-> cstate1]

\* Agency.get_or_create(agency_id, agency_name)
Agency_get_or_create(objs, agency_id, agency_name) ==
    LET match == Search(objs, Agency_search_fields,
                        [agency_id |-> agency_id, agency_name |-> agency_name])
    IN IF Len(match) = 0
       THEN [inst |-> Len(objs) + 1,
             objs |-> Append(objs, [agency_id |-> agency_id,
                                    agency_name |-> agency_name])]
       ELSE [inst |-> match[1], objs |-> objs]

(***************************************************************************)
(* School.__init__ and SchoolDataSet._read_line.                           *)
(***************************************************************************)
\* School(*line) on the process-wide state D (registries, count dicts,
\* tallies): what it raised, the School built, and the state after.  The
\* agency is looked up before the city, so a ValueError of
\* City.get_or_create leaves the agency registered.
School(D, line) ==
    LET sid == line[1]
        a == Agency_get_or_create(D.agencies, line[2], line[3])
        c == City_get_or_create(D.cities, D.counts_city, D.counts_state,
                                line[5], line[6])
        locale_code == find_val(LocaleCodes, convert_type(line[9]))
        urban_code == find_val(UrbanLocaleCodes, convert_type(line[10]))
        status_code == find_val(SchoolStatusCodes, convert_type(line[11]))
    IN IF c.raised # None
       THEN [raised |-> c.raised, school |-> None,
             D |-> [D EXCEPT !.agencies = a.objs]]
       ELSE [raised |-> None,
             school |-> [school_id |-> sid, name |-> line[4],
                         agency |-> a.inst, city |-> c.inst,
                         lat |-> convert_type(line[7]),
                         long |-> convert_type(line[8]),
                         locale_code |-> locale_code,
                         urban_code |-> urban_code,
                         status_code |-> status_code],
             D |-> [agencies |-> a.objs, cities |-> c.objs,
                    counts_city |-> c.counts_city,
                    counts_state |-> c.counts_state,
                    locale |-> increment_count_metadata(locale_code, D.locale),
                    urban |-> increment_count_metadata(urban_code, D.urban),
                    status |-> increment_count_metadata(status_code, D.status)]]

\* The process-wide state as the variables hold it.
Cur ==
    [agencies |-> Agency_class_obj_list, cities |-> City_class_obj_list,
     counts_city |-> counts_city, counts_state |-> counts_state,
     locale |-> locale_code_count, urban |-> urban_code_count,
     status |-> status_code_count]

(***************************************************************************)
(* Inputs.                                                                 *)
(***************************************************************************)
Springfield == <<"S", "p", "r", "i", "n", "g", "f", "i", "e", "l", "d">>
Troy == <<"T", "r", "o", "y">>
IL == <<"I", "L">>
MO == <<"M", "O">>
A1 == <<"A", "1">>
A2 == <<"A", "2">>
Unified == <<"U", "n", "i", "f", "i", "e", "d">>
District == <<"D", "i", "s", "t">>

CityNames == {Springfield, Troy}
StateAbbrs == {IL, MO, <<"I">>, <<"I", "L", "L">>}
AgencyIds == {A1, A2}
AgencyNames == {Unified, District}

\* Records of the input file, fields in file order: school_id, agency_id,
\* agency_name, school_name, city, state, latitude, longitude, locale_code,
\* urban_code, status_code; the last one is a row with too few fields.
Row1 == <<<<"1">>, A1, Unified, <<"L">>, Springfield, IL,
          <<"3", "9">>, <<"8", "9">>, <<"1", "1">>, <<"1", "1">>, <<"1">>>>
Row2 == <<<<"2">>, A1, Unified, <<"H">>, Springfield, IL,
          <<"3", "9">>, <<"x">>, <<"1", "3">>, <<"1", "3">>, <<"1">>>>
Row3 == <<<<"3">>, A2, Unified, <<"J">>, Troy, MO,
          <<"4", "0">>, <<"9", "0">>, <<"1">>, <<"z">>, <<"9">>>>
Row4 == <<<<"4">>, A2, District, <<"K">>, Springfield, <<"I", "L", "L">>,
          <<"4", "0">>, <<"9", "0">>, <<"1">>, <<"1", "1">>, <<"1">>>>
Row5 == <<<<"5">>, A1, Unified, <<"M">>, Springfield, MO,
          <<>>, <<>>, <<"0", "3">>, <<>>, <<"N", "A">>>>
Row6 == <<<<"6">>, A1, Unified>>

DataLines == {Row1, Row2, Row3, Row4, Row5, Row6}

(***************************************************************************)
(* The data model's operations.                                            *)
(***************************************************************************)
NoQuery == <<"?">>

Init ==
    /\ City_class_obj_list = <<>>
    /\ Agency_class_obj_list = <<>>
    /\ counts_city = EmptyDict
    /\ counts_state = EmptyDict
    /\ locale_code_count = EmptyDict
    /\ urban_code_count = EmptyDict
    /\ status_code_count = EmptyDict
    /\ schools = <<>>
    /\ engine = "none"
    /\ whole_terms = <<>>
    /\ query = NoQuery
    /\ result = <<>>
    /\ phrase_raised = FALSE
    /\ search_error = FALSE
    /\ ret = [op |-> "none", args |-> <<>>, raised |-> None, inst |-> 0]
    /\ nOps = 0
    /\ cityInvoked = EmptyDict
    /\ cityReturned = EmptyDict
    /\ stateReturned = EmptyDict
    /\ cityFirst = EmptyDict
    /\ agencyFirst = EmptyDict
    /\ cacheAtBuild = <<>>

\* d.setdefault(k, v)
SetDefault(d, k, v) == IF k \in DOMAIN d THEN d ELSE (k :> v) @@ d

\* The history of one City.get_or_create(city, state) call that ended as r.
CityHistory(city, state, r) ==
    /\ cityInvoked' = DictIncrement(cityInvoked, city)
    /\ IF r.raised = None
       THEN /\ cityReturned' = DictIncrement(cityReturned, city)
            /\ stateReturned' = DictIncrement(stateReturned, state)
            /\ cityFirst' = SetDefault(cityFirst, <<city, state>>, r.inst)
       ELSE UNCHANGED <<cityReturned, stateReturned, cityFirst>>

\* A direct call City.get_or_create(city, state).
CityCall(city, state) ==
    LET r == City_get_or_create(City_class_obj_list, counts_city, counts_state,
                                city, state)
    IN /\ nOps < MaxOps
       /\ City_class_obj_list' = r.objs
       /\ counts_city' = r.counts_city
       /\ counts_state' = r.counts_state
       /\ ret' = [op |-> "City.get_or_create", args |-> <<city, state>>,
                  raised |-> r.raised, inst |-> r.inst]
       /\ nOps' = nOps + 1
       /\ CityHistory(city, state, r)
       /\ UNCHANGED <<Agency_class_obj_list, locale_code_count, urban_code_count,
                      status_code_count, schools, agencyFirst>>
       /\ UNCHANGED searchVars

\* A direct call Agency.get_or_create(agency_id, agency_name).
AgencyCall(agency_id, agency_name) ==
    LET r == Agency_get_or_create(Agency_class_obj_list, agency_id, agency_name)
    IN /\ nOps < MaxOps
       /\ Agency_class_obj_list' = r.objs
       /\ ret' = [op |-> "Agency.get_or_create", args |-> <<agency_id, agency_name>>,
                  raised |-> None, inst |-> r.inst]
       /\ nOps' = nOps + 1
       /\ agencyFirst' = SetDefault(agencyFirst, <<agency_id, agency_name>>, r.inst)
       /\ UNCHANGED <<City_class_obj_list, counts_city, counts_state,
                      locale_code_count, urban_code_count, status_code_count,
                      schools, cityInvoked, cityReturned, stateReturned, cityFirst>>
       /\ UNCHANGED searchVars

\* One turn of load_csv's loop on a record: SchoolDataSet._read_line skips a
\* row that has not 11 fields, and otherwise builds the School and appends it;
\* load_csv logs a ValueError of the constructor and goes on to the next row.
read_line(line) ==
    /\ nOps' = nOps + 1
    /\ UNCHANGED searchVars
    /\ IF Len(line) # 11
       THEN /\ ret' = [op |-> "School", args |-> line, raised |-> None, inst |-> 0]
            /\ UNCHANGED dataVars
       ELSE LET r == School(Cur, line)
                a == Agency_get_or_create(Agency_class_obj_list, line[2], line[3])
                c == City_get_or_create(City_class_obj_list, counts_city,
                                        counts_state, line[5], line[6])
            IN /\ Agency_class_obj_list' = r.D.agencies
               /\ City_class_obj_list' = r.D.cities
               /\ counts_city' = r.D.counts_city
               /\ counts_state' = r.D.counts_state
               /\ locale_code_count' = r.D.locale
               /\ urban_code_count' = r.D.urban
               /\ status_code_count' = r.D.status
               /\ schools' = IF r.raised = None THEN Append(schools, r.school)
                             ELSE schools
               /\ ret' = [op |-> "School", args |-> line, raised |-> r.raised,
                          inst |-> <<a.inst, c.inst>>]
               /\ agencyFirst' = SetDefault(agencyFirst, <<line[2], line[3]>>, a.inst)
               /\ CityHistory(line[5], line[6], c)

\* A record read by load_csv in a run of the data model.
ReadLine(line) ==
    /\ nOps < MaxOps
    /\ read_line(line)

Next ==
    \/ \E city \in CityNames, state \in StateAbbrs : CityCall(city, state)
    \/ \E agency_id \in AgencyIds, agency_name \in AgencyNames :
           AgencyCall(agency_id, agency_name)
    \/ \E line \in DataLines : ReadLine(line)

Spec == Init /\ [][Next]_vars

(***************************************************************************)
(* Claims about the registries, the counts and the tallies.                *)
(***************************************************************************)
\* The (city, state) a City.get_or_create call of the last operation was
\* given: a direct call, or the call School.__init__ makes for an 11-field row.
LastCityArgs ==
    IF ret.op = "City.get_or_create" THEN <<ret.args>>
    ELSE IF ret.op = "School" /\ Len(ret.args) = 11
         THEN <<<<ret.args[5], ret.args[6]>>>>
         ELSE <<>>

LastCityInst == IF ret.op = "School" THEN ret.inst[2] ELSE ret.inst

LastAgencyArgs ==
    IF ret.op = "Agency.get_or_create" THEN <<ret.args>>
    ELSE IF ret.op = "School" /\ Len(ret.args) = 11
         THEN <<<<ret.args[2], ret.args[3]>>>>
         ELSE <<>>

LastAgencyInst == IF ret.op = "School" THEN ret.inst[1] ELSE ret.inst

\* C1: each registry holds at most one instance per identity, and a
\* get_or_create call with valid arguments returns the instance of that
\* identity which the first call with these arguments returned.
C1_OneInstancePerIdentity ==
    /\ \A i, j \in 1..Len(City_class_obj_list) :
           City_class_obj_list[i] = City_class_obj_list[j] => i = j
    /\ \A i, j \in 1..Len(Agency_class_obj_list) :
           Agency_class_obj_list[i] = Agency_class_obj_list[j] => i = j
    /\ \A k \in 1..Len(LastCityArgs) :
           Len(LastCityArgs[k][2]) = 2 =>
               /\ ret.raised = None
               /\ LastCityInst = cityFirst[LastCityArgs[k]]
               /\ City_class_obj_list[LastCityInst] =
                      [city |-> LastCityArgs[k][1], state |-> LastCityArgs[k][2]]
    /\ \A k \in 1..Len(LastAgencyArgs) :
           /\ LastAgencyInst = agencyFirst[LastAgencyArgs[k]]
           /\ Agency_class_obj_list[LastAgencyInst] =
                  [agency_id |-> LastAgencyArgs[k][1],
                   agency_name |-> LastAgencyArgs[k][2]]

\* A repeated call returned the first of two registered instances.
C1_Witness ==
    /\ ret.op = "City.get_or_create"
    /\ ret.raised = None
    /\ Len(City_class_obj_list) = 2
    /\ ret.inst = 1
    /\ Get0(cityReturned, ret.args[1]) >= 2

\* C2 as stated: the count of a city name is the number of
\* City.get_or_create invocations with that name, and the counts of the
\* states add up to the number of invocations.
C2_CountIsInvocations ==
    /\ \A city \in CityNames :
           Get0(counts_city, city) = Get0(cityInvoked, city)
    /\ SumDict(counts_state) = SumDict(cityInvoked)

\* C2 as amended: the count of a city name is the number of invocations with
\* that name that returned an instance (hit or miss), and the count of a
\* state the number of such invocations with that state; an invocation that
\* fails on the state's length counts nowhere.
C2_CountIsReturnedCalls ==
    /\ DOMAIN counts_city = DOMAIN cityReturned
    /\ \A city \in CityNames :
           Get0(counts_city, city) = Get0(cityReturned, city)
    /\ DOMAIN counts_state = DOMAIN stateReturned
    /\ \A state \in StateAbbrs :
           Get0(counts_state, state) = Get0(stateReturned, state)
    /\ \A city \in CityNames :
           Get0(cityReturned, city) <= Get0(cityInvoked, city)

\* One instance of Springfield after a miss, a hit and a failed call.
C2_Witness ==
    /\ Get0(counts_city, Springfield) = 2
    /\ Get0(cityInvoked, Springfield) = 3
    /\ Len(City_class_obj_list) = 1

\* C3: a City.get_or_create call whose state has not 2 characters raises
\* ValueError and leaves City.class_obj_list as it was.
C3_BadStateCreatesNothing ==
    [][\A k \in 1..Len(LastCityArgs') :
           (nOps' = nOps + 1 /\ Len(LastCityArgs'[k][2]) # 2) =>
               /\ ret'.raised = "ValueError"
               /\ City_class_obj_list' = City_class_obj_list]_vars

\* A call with a bad state has failed on a registry that holds an instance.
C3_Witness ==
    /\ ret.op = "City.get_or_create"
    /\ Len(ret.args[2]) # 2
    /\ ret.raised = "ValueError"
    /\ Len(City_class_obj_list) >= 1

\* The Schools of the data set that resolved to member `label` in `field`.
SchoolsWith(field, label) ==
    Cardinality({i \in 1..Len(schools) : schools[i][field] = label})

Resolved(field) ==
    Cardinality({i \in 1..Len(schools) : schools[i][field] # None})

\* The raw code is a defined code of the enum: a run of digits whose value
\* is a member's value.
Defined(cls, raw) == Numeric(raw) /\ IntOf(raw) \in DOMAIN cls

TallyAgrees(tally, field) ==
    /\ SumDict(tally) = Resolved(field)
    /\ \A label \in DOMAIN tally : tally[label] = SchoolsWith(field, label)

\* The School the last operation built from `raw` in column `col` has no
\* classification in `field` and left `tally` as it was.
UnknownCodeStep(tally, tallyAfter, cls, field, col) ==
    (/\ ret'.op = "School"
     /\ nOps' = nOps + 1
     /\ Len(ret'.args) = 11
     /\ Len(ret'.args[6]) = 2
     /\ ~Defined(cls, ret'.args[col])) =>
        /\ ret'.raised = None
        /\ Len(schools') = Len(schools) + 1
        /\ schools'[Len(schools')][field] = None
        /\ tallyAfter = tally

\* C4: in each category the tallied counts add up to the number of Schools
\* whose raw code resolved, and a School whose raw code is non-numeric or
\* not a defined code is built without raising, has no classification and
\* changes no tally.
C4_TalliesCountResolvedSchools ==
    /\ [](/\ TallyAgrees(locale_code_count, "locale_code")
          /\ TallyAgrees(urban_code_count, "urban_code")
          /\ TallyAgrees(status_code_count, "status_code"))
    /\ [][/\ UnknownCodeStep(locale_code_count, locale_code_count',
                             LocaleCodes, "locale_code", 9)
          /\ UnknownCodeStep(urban_code_count, urban_code_count',
                             UrbanLocaleCodes, "urban_code", 10)
          /\ UnknownCodeStep(status_code_count, status_code_count',
                             SchoolStatusCodes, "status_code", 11)]_vars

\* Two Schools under one label, and a third whose locale code is unknown.
C4_Witness ==
    /\ Len(schools) = 3
    /\ Get0(locale_code_count, "LARGE_CITY") = 2
    /\ schools[3].locale_code = None
    /\ schools[3].status_code # None

\* The two rows of the example were read, in order, from the empty state.
TwoRowsRead ==
    /\ nOps = 2
    /\ Len(schools) = 2
    /\ schools[1].school_id = Row1[1]
    /\ schools[2].school_id = Row2[1]

\* C7 as stated: after the rows with locale codes 11 and 13 the locale tally
\* has exactly two labels, each with count 1.
C7_LocaleTallyHasTwoLabels ==
    TwoRowsRead =>
        /\ Cardinality(DOMAIN locale_code_count) = 2
        /\ \A label \in DOMAIN locale_code_count : locale_code_count[label] = 1

\* C7 as amended: 11 and 13 are no locale codes, so the locale tally stays
\* empty and the two Schools have no locale classification; the rows carry
\* 11 and 13 as urban codes too, and it is the urban tally that has exactly
\* the two labels CITY_LARGE and CITY_SMALL, each with count 1.
C7_LocaleTallyEmptyUrbanTwoLabels ==
    TwoRowsRead =>
        /\ DOMAIN locale_code_count = {}
        /\ schools[1].locale_code = None
        /\ schools[2].locale_code = None
        /\ DOMAIN urban_code_count = {"CITY_LARGE", "CITY_SMALL"}
        /\ \A label \in DOMAIN urban_code_count : urban_code_count[label] = 1

C7_Witness ==
    /\ TwoRowsRead
    /\ schools[1].agency = schools[2].agency
    /\ schools[1].city = schools[2].city
    /\ Get0(counts_city, Springfield) = 2

(***************************************************************************)
(* Python str operations.                                                  *)
(***************************************************************************)
UpperCase == <<"A", "B", "C", "D", "E", "F", "G", "H", "I", "J", "K", "L", "M",
               "N", "O", "P", "Q", "R", "S", "T", "U", "V", "W", "X", "Y", "Z">>

LowerCase == <<"a", "b", "c", "d", "e", "f", "g", "h", "i", "j", "k", "l", "m",
               "n", "o", "p", "q", "r", "s", "t", "u", "v", "w", "x", "y", "z">>

\* str.lower()
LowerChar(c) ==
    IF \E i \in 1..26 : UpperCase[i] = c
    THEN LowerCase[CHOOSE i \in 1..26 : UpperCase[i] = c]
    ELSE c

Lower(s) == [i \in 1..Len(s) |-> LowerChar(s[i])]

\* " ".join(parts)
RECURSIVE Join(_)
Join(parts) ==
    IF Len(parts) = 0 THEN <<>>
    ELSE IF Len(parts) = 1 THEN parts[1]
    ELSE parts[1] \o <<" ">> \o Join(Tail(parts))

\* s.split(" "): the runs between single spaces, empty runs included.
RECURSIVE Split(_)
Split(s) ==
    IF \A i \in 1..Len(s) : s[i] # " " THEN <<s>>
    ELSE LET i == CHOOSE j \in 1..Len(s) :
                      s[j] = " " /\ \A k \in 1..(j - 1) : s[k] # " "
         IN <<SubSeq(s, 1, i - 1)>> \o Split(SubSeq(s, i + 1, Len(s)))

\* word in option: the substring test.
Contains(word, option) ==
    \E i \in 0..(Len(option) - Len(word)) :
        SubSeq(option, i + 1, i + Len(word)) = word

(***************************************************************************)
(* SchoolSearchEngine.  The lists _match_words works on live in a heap H,  *)
(* a sequence of lists addressed by position: H[CacheAddr] is              *)
(* self._whole_terms, a list comprehension or a slice appends a new list,  *)
(* and pop() and append() change the list at the address they are called   *)
(* on, whichever names refer to it.                                        *)
(***************************************************************************)
CacheAddr == 1

NoList == 0     \* options = None

\* _build_cache(dataset): one entry per School, in data set order.
build_cache(dataset, cities) ==
    [i \in 1..Len(dataset) |->
        Join(<<Lower(dataset[i].name),
               Lower(cities[dataset[i].city].city),
               Lower(cities[dataset[i].city].state)>>)]

Return(addr, H) == [raised |-> None, ret |-> addr, H |-> H]

Raise(exc, H) == [raised |-> exc, ret |-> NoList, H |-> H]

\* The same filter written over the list it reads.
FilterInPlace(word, options, H) ==
    LET kept == SelectSeq(H[options], LAMBDA option : Contains(word, option))
    IN Append([H EXCEPT ![options] = kept], kept)

\* remaining_options = [option for option in options if words[0] in option]:
\* the heap with the new list at its end.
NewFiltered(word, options, H) ==
    Append(H, SelectSeq(H[options], LAMBDA option : Contains(word, option)))

\* lst[:3]: the heap with the new list at its end.
Slice3(lst, H) ==
    Append(H, SubSeq(H[lst], 1, IF Len(H[lst]) < 3 THEN Len(H[lst]) ELSE 3))

\* lst.pop(): the heap with the last element of the list removed.
Pop(lst, H) == [H EXCEPT ![lst] = SubSeq(@, 1, Len(@) - 1)]

\* The while loop that fills results up to 3 entries from remaining_options:
\*     next_option = remaining_options.pop()
\*     if next_option not in results:
\*         results.append(remaining_options.pop())
\* pop() of an empty list raises IndexError.
RECURSIVE Backfill(_, _, _)
Backfill(results, remaining_options, H) ==
    IF Len(H[results]) >= 3 THEN Return(results, H)
    ELSE IF Len(H[remaining_options]) = 0 THEN Raise("IndexError", H)
    ELSE LET next_option == H[remaining_options][Len(H[remaining_options])]
             H1 == Pop(remaining_options, H)
         IN IF next_option \notin Range(H1[results])
            THEN IF Len(H1[remaining_options]) = 0 THEN Raise("IndexError", H1)
                 ELSE LET popped == H1[remaining_options][Len(H1[remaining_options])]
                          H2 == Pop(remaining_options, H1)
                      IN Backfill(results, remaining_options,
                                  [H2 EXCEPT ![results] = Append(@, popped)])
            ELSE Backfill(results, remaining_options, H1)

RECURSIVE match_words(_, _, _)

\* The unmatched word zeroing out the result instead of being skipped.
SkipWordZero(words, options, H) == Return(Len(H) + 1, Append(H, <<>>))

\* remaining_options = self._match_words(words[1:], options)
SkipWord(words, options, H) == match_words(Tail(words), options, H)

\* _match_words from `if len(words) == 1` on, remaining_options being the
\* list at that address.
AfterFilter(words, remaining_options, H) ==
    IF Len(words) = 1
    THEN Return(Len(H) + 1, Slice3(remaining_options, H))
    ELSE IF Len(H[remaining_options]) <= 3
    THEN Return(remaining_options, H)
    ELSE LET r == match_words(Tail(words), remaining_options, H)
         IN IF r.raised # None THEN r
            ELSE Backfill(r.ret, remaining_options, r.H)

\* _match_words(words, options) on heap H: what it raised, the address of the
\* list it returned, and the heap after.
match_words(words, optionsArg, H) ==
    LET options == IF optionsArg = NoList \/ Len(H[optionsArg]) = 0
                   THEN CacheAddr ELSE optionsArg
    IN IF Len(words) = 0 THEN Return(options, H)
       ELSE LET H1 == NewFiltered(words[1], options, H)
                remaining_options == Len(H1)
            IN IF Len(H1[remaining_options]) = 0
               THEN IF Len(words) > 1
                    THEN LET r == SkipWord(words, options, H1)
                         IN IF r.raised # None THEN r
                            ELSE AfterFilter(words, r.ret, r.H)
                    ELSE Return(Len(H1) + 1, Slice3(options, H1))
               ELSE AfterFilter(words, remaining_options, H1)

\* phrase() without the except clause.
phrase_no_except(phrase_str, cache) ==
    LET r == match_words(Split(phrase_str), NoList, <<cache>>)
    IN [result |-> IF r.raised # None THEN <<>> ELSE r.H[r.ret],
        raised |-> r.raised # None, logged |-> FALSE,
        whole_terms |-> r.H[CacheAddr]]

\* SchoolSearchEngine.phrase(phrase) on the cache: the list returned, whether
\* it raised to the caller, whether "Search error." was logged, and the cache
\* after the call.
phrase(phrase_str, cache) ==
    LET words == Split(phrase_str)
        r == match_words(words, NoList, <<cache>>)
    IN IF r.raised # None
       THEN [result |-> <<>>, raised |-> FALSE, logged |-> TRUE,
             whole_terms |-> r.H[CacheAddr]]
       ELSE [result |-> r.H[r.ret], raised |-> FALSE, logged |-> FALSE,
             whole_terms |-> r.H[CacheAddr]]

(***************************************************************************)
(* The search engine's run: main() loads the file, then builds the engine  *)
(* from the data set, then answers queries.                                *)
(***************************************************************************)
SearchRowOf(sid, name) ==
    <<sid, A1, Unified, name, <<"S">>, IL, <<"3", "9">>, <<"8", "9">>,
      <<"1">>, <<"1", "1">>, <<"1">>>>

\* Five records of one city; the last has the first one's name in lower
\* case, so that two Schools give the same cache entry.
SearchLines ==
    {SearchRowOf(<<"1">>, <<"A">>), SearchRowOf(<<"2">>, <<"b">>),
     SearchRowOf(<<"3">>, <<"c">>), SearchRowOf(<<"4">>, <<"d">>),
     SearchRowOf(<<"5">>, <<"a">>)}

\* The words of a query: the empty word (which every entry contains) and two
\* names; a query is up to MaxWords of them joined by single spaces.
QueryWords == {<<>>, <<"a">>, <<"b">>}

Queries ==
    {Join(ws) : ws \in UNION {[1..n -> QueryWords] : n \in 1..MaxWords}}

\* A record read by load_csv before the engine is built; the file holds each
\* record once.
LoadRecord(line) ==
    /\ engine = "none"
    /\ Len(schools) < MaxSchools
    /\ \A i \in 1..Len(schools) : schools[i].school_id # line[1]
    /\ read_line(line)

\* SchoolSearchEngine(dataset.schools)
BuildEngine ==
    /\ engine = "none"
    /\ engine' = "built"
    /\ whole_terms' = build_cache(schools, City_class_obj_list)
    /\ cacheAtBuild' = build_cache(schools, City_class_obj_list)
    /\ UNCHANGED <<query, result, phrase_raised, search_error, ret, nOps>>
    /\ UNCHANGED dataVars

\* SEARCH.phrase(q)
Phrase(q) ==
    LET r == phrase(q, whole_terms)
    IN /\ engine = "built"
       /\ query' = q
       /\ result' = r.result
       /\ phrase_raised' = r.raised
       /\ search_error' = r.logged
       /\ whole_terms' = r.whole_terms
       /\ UNCHANGED <<engine, cacheAtBuild, ret, nOps>>
       /\ UNCHANGED dataVars

NextSearch ==
    \/ \E line \in SearchLines : LoadRecord(line)
    \/ BuildEngine
    \/ \E q \in Queries : Phrase(q)

SpecSearch == Init /\ [][NextSearch]_vars

(***************************************************************************)
(* Claims about the search engine.                                         *)
(***************************************************************************)
Called == engine = "built" /\ query # NoQuery

Distinct(lst) == \A i, j \in 1..Len(lst) : lst[i] = lst[j] => i = j

NoEntryContains(word) ==
    \A i \in 1..Len(whole_terms) : ~Contains(word, whole_terms[i])

RemoveAt(words, k) == SubSeq(words, 1, k - 1) \o SubSeq(words, k + 1, Len(words))

\* The entries of the cache that contain every one of the words.
Matching(words) ==
    SelectSeq(whole_terms,
              LAMBDA option : \A k \in 1..Len(words) : Contains(words[k], option))

\* The last call had two words, more than 3 entries contain the first and
\* one or two of these the second: the call went through the backfill loop.
BackfillReached ==
    /\ Called
    /\ Len(Split(query)) = 2
    /\ Len(Matching(<<Split(query)[1]>>)) > 3
    /\ Len(Matching(Split(query))) \in {1, 2}

\* C5: phrase(q) returns at most 3 entries, each an entry of the cache, and
\* does not raise to its caller.
C5_PhraseReturnsUpTo3CacheEntries ==
    Called =>
        /\ Len(result) <= 3
        /\ \A i \in 1..Len(result) : result[i] \in Range(whole_terms)
        /\ ~phrase_raised

\* A call that failed inside _match_words and returned the empty list.
C5_Witness ==
    /\ Called
    /\ search_error
    /\ ~phrase_raised
    /\ result = <<>>
    /\ Len(whole_terms) = 4

\* C6: when a word of a query of two or more words is contained in no cache
\* entry, phrase returns what it returns for the query without that word.
C6_UnmatchedWordIsDropped ==
    (Called /\ Len(Split(query)) >= 2) =>
        \A k \in 1..Len(Split(query)) :
            NoEntryContains(Split(query)[k]) =>
                result = phrase(Join(RemoveAt(Split(query), k)), whole_terms).result

\* "a b" on a cache of three or more entries none of which contains "b":
\* the result is the one entry that contains "a".
C6_Witness ==
    /\ Called
    /\ query = <<"a", " ", "b">>
    /\ NoEntryContains(<<"b">>)
    /\ Len(whole_terms) >= 3
    /\ Len(result) = 1
    /\ Contains(<<"a">>, result[1])

\* C8: on a cache of pairwise distinct entries phrase returns no entry twice.
C8_NoEntryTwice ==
    (Called /\ Distinct(whole_terms)) => Distinct(result)

\* C9: the backfill loop ends without an error inside phrase resolution, and
\* phrase returns the entries found and backfilled, not the empty list.
C9_BackfillStopsCleanly ==
    BackfillReached =>
        /\ ~search_error
        /\ Len(result) >= Len(Matching(Split(query)))
        /\ \A i \in 1..Len(Matching(Split(query))) :
               Matching(Split(query))[i] \in Range(result)

\* C10: once built, the cache is the list _build_cache made, one entry per
\* School in data set order, whatever phrase calls followed.
C10_CacheImmutable ==
    engine = "built" =>
        /\ whole_terms = cacheAtBuild
        /\ Len(whole_terms) = Len(schools)
        /\ \A i \in 1..Len(schools) :
               whole_terms[i] =
                   Lower(schools[i].name) \o <<" ">>
                   \o Lower(City_class_obj_list[schools[i].city].city) \o <<" ">>
                   \o Lower(City_class_obj_list[schools[i].city].state)

\* The cache after a call that went through the backfill loop and failed
\* there, on a data set whose names are not all lower case.
C10_Witness ==
    /\ BackfillReached
    /\ search_error
    /\ \E i \in 1..Len(schools) : schools[i].name # Lower(schools[i].name)

(***************************************************************************)
(* Claim about a record that School.__init__ rejects.                      *)
(***************************************************************************)
\* The step is one turn of load_csv on an 11-field record whose state
\* abbreviation has not 2 characters.
BadStateRecordStep ==
    /\ nOps' = nOps + 1
    /\ ret'.op = "School"
    /\ Len(ret'.args) = 11
    /\ Len(ret'.args[6]) # 2

\* C11: a record whose state abbreviation has not 2 characters changes
\* nothing: no Agency and no City is registered, no city or state count and
\* no tally changes, and no School is appended to the data set.
C11_BadStateRecordChangesNothing ==
    [][BadStateRecordStep =>
           /\ Agency_class_obj_list' = Agency_class_obj_list
           /\ City_class_obj_list' = City_class_obj_list
           /\ counts_city' = counts_city
           /\ counts_state' = counts_state
           /\ locale_code_count' = locale_code_count
           /\ urban_code_count' = urban_code_count
           /\ status_code_count' = status_code_count
           /\ schools' = schools]_vars

====
